---------------------------- MODULE Spec2Model ----------------------------
(***************************************************************************)
(* Model of packages/babel-preset-expo/src/expo-router-plugin.ts:          *)
(*   - the process-wide resolvers (getConfigMemo, getExpoRouterImportMode, *)
(*     getExpoRouterAbsoluteAppRoot, getExpoRouterAppRoot),                *)
(*   - the expoRouterBabelPlugin MemberExpression visitor,                 *)
(*   - the expoRouterServerComponentClientReferencesPlugin Program visitor.*)
(*                                                                         *)
(* JavaScript values are encoded as strings: UNDEF is `undefined`, JTRUE   *)
(* and JFALSE are the booleans, "" is the empty string, any other string   *)
(* is itself.  Paths are sequences of segments; an absolute path starts    *)
(* with the segment "/", the empty sequence is the empty string and        *)
(* NoPath is `undefined`.                                                  *)
(***************************************************************************)
EXTENDS Naturals, Sequences, FiniteSets

VARIABLES
  testing,   \* process.env._EXPO_INTERNAL_TESTING is set
  disk,      \* what getConfig(projectRoot) returns now (the project's config)
  srcApp,    \* whether <projectRoot>/src/app is a directory
  proc,      \* module-level `config` and the process.env keys used as caches
  last,      \* the last resolver call: its inputs and its outcome
  target,    \* the babel caller and environment of an EnvInlining run
  tree,      \* the member expressions of the file being visited
  pos,       \* index of the next node the visitor is handed
  pass,      \* "first" run, "second" run on the first run's output, "done", "failed"
  firstOut,  \* the tree the first run produced
  file,      \* the Program node handed to the client-references plugin
  srv,       \* the outcome of the plugin instance created with isRSC = true
  cli        \* the outcome of the plugin instance created with isRSC = false

vars == <<testing, disk, srcApp, proc, last, target, tree, pos, pass, firstOut,
          file, srv, cli>>

----------------------------------------------------------------------------
(* JavaScript values *)

UNDEF == "<undefined>"
JTRUE == "<true>"
JFALSE == "<false>"
NoPath == <<UNDEF>>

Truthy(v) == v \notin {UNDEF, "", JFALSE}
TruthyPath(p) == p # NoPath /\ p # <<>>

Platforms == {"ios", "web"}
NodeEnvs == {UNDEF, "development", "production", "test"}
\* <<NODE_ENV, BABEL_ENV>> as found in process.env
EnvPairs == {<<n, UNDEF>> : n \in NodeEnvs} \cup {<<UNDEF, "production">>}

\* 'EXPO_ROUTER_IMPORT_MODE_' + platform.toUpperCase()
ImportModeEnvVar(platform) ==
  CASE platform = "ios" -> "EXPO_ROUTER_IMPORT_MODE_IOS"
    [] platform = "android" -> "EXPO_ROUTER_IMPORT_MODE_ANDROID"
    [] platform = "web" -> "EXPO_ROUTER_IMPORT_MODE_WEB"

ImportModeKeys == {ImportModeEnvVar(p) : p \in Platforms}
CacheKeys == ImportModeKeys \cup
             {"config", "EXPO_ROUTER_ABS_APP_ROOT", "EXPO_ROUTER_APP_ROOT_2"}

----------------------------------------------------------------------------
(* Paths (the parts of node's `path` module the plugin uses) *)

ProjectRoot == <<"/", "p">>

RECURSIVE Normalize(_)
Normalize(p) ==
  IF p = <<>> THEN <<>>
  ELSE IF Head(p) = "." THEN Normalize(Tail(p))
  ELSE <<Head(p)>> \o Normalize(Tail(p))

\* nodePath.join(a, b) for an absolute a and a relative b
Join(a, b) == Normalize(a \o b)

\* nodePath.dirname
Dirname(p) == SubSeq(p, 1, Len(p) - 1)

RECURSIVE CommonPrefixLen(_, _)
CommonPrefixLen(a, b) ==
  IF a = <<>> \/ b = <<>> \/ Head(a) # Head(b) THEN 0
  ELSE 1 + CommonPrefixLen(Tail(a), Tail(b))

RECURSIVE Ups(_)
Ups(n) == IF n = 0 THEN <<>> ELSE <<"..">> \o Ups(n - 1)

\* nodePath.relative(from, to) for two absolute paths; '' when they are equal
Relative(from, to) ==
  LET k == CommonPrefixLen(from, to)
  IN Ups(Len(from) - k) \o SubSeq(to, k + 1, Len(to))

\* resolveFrom(projectRoot, 'expo-router/entry')
RouterEntry(projectRoot) ==
  projectRoot \o <<"node_modules", "expo-router", "entry.js">>

----------------------------------------------------------------------------
(* ProjectConfig: exp.extra.router.asyncRoutes, exp.web.output,            *)
(* exp.extra.router.unstable_src                                           *)

MapKeys == Platforms \cup {"default"}
EmptyMap == [k \in MapKeys |-> UNDEF]

ARUndefined == [kind |-> "undefined", val |-> UNDEF, map |-> EmptyMap]
ARString(s) == [kind |-> "string", val |-> s, map |-> EmptyMap]
ARBoolean(b) == [kind |-> "boolean", val |-> b, map |-> EmptyMap]
ARObject(m) == [kind |-> "object", val |-> UNDEF, map |-> m]

PerPlatform == [ios |-> UNDEF, web |-> JTRUE, default |-> "production"]

MkConfig(ar, out, src) ==
  [loaded |-> TRUE, asyncRoutes |-> ar, webOutput |-> out, unstable_src |-> src]

NoConfig ==
  [loaded |-> FALSE, asyncRoutes |-> ARUndefined, webOutput |-> UNDEF,
   unstable_src |-> NoPath]

\* The project configurations getConfig may return.
Configs ==
  { MkConfig(ARUndefined, "single", NoPath),
    MkConfig(ARString("development"), "single", NoPath),
    MkConfig(ARString("development"), "static", NoPath),
    MkConfig(ARString("production"), "static", NoPath),
    MkConfig(ARBoolean(JTRUE), "single", NoPath),
    MkConfig(ARObject(PerPlatform), "single", NoPath),
    MkConfig(ARUndefined, "single", <<"node_modules", "expo-router">>),
    MkConfig(ARUndefined, "static", <<"/", "abs", "routes">>) }

----------------------------------------------------------------------------
(* The process-wide state: the module-level `config` and the process.env   *)
(* keys the resolvers use as caches.  `writes` counts the assignments made *)
(* to each key, saturating at MaxWrites.                                   *)

MaxWrites == 2

InitProc ==
  [config |-> NoConfig,
   env |-> [k \in ImportModeKeys |-> UNDEF],
   absAppRoot |-> NoPath,
   appRoot2 |-> NoPath,
   writes |-> [k \in CacheKeys |-> 0]]

Bump(w, k) == [w EXCEPT ![k] = IF w[k] < MaxWrites THEN w[k] + 1 ELSE w[k]]

\* The ambient inputs of a resolver call.
Ambient(t, d, s, nodeEnv, babelEnv) ==
  [testing |-> t, disk |-> d, srcApp |-> s, nodeEnv |-> nodeEnv, babelEnv |-> babelEnv]

\* function getConfigMemo(projectRoot)
getConfigMemo(p, amb) ==
  IF ~p.config.loaded \/ amb.testing
  THEN [proc |-> [p EXCEPT !.config = amb.disk, !.writes = Bump(p.writes, "config")],
        value |-> amb.disk]
  ELSE [proc |-> p, value |-> p.config]

\* const env = process.env.NODE_ENV || process.env.BABEL_ENV
ActiveEnv(amb) == IF Truthy(amb.nodeEnv) THEN amb.nodeEnv ELSE amb.babelEnv

\* if (exp.extra?.router?.asyncRoutes)
AsyncRoutesTruthy(ar) ==
  CASE ar.kind = "string" -> Truthy(ar.val)
    [] ar.kind = "boolean" -> ar.val = JTRUE
    [] ar.kind = "object" -> TRUE
    [] OTHER -> FALSE

\* let asyncRoutesSetting ... asyncRoutes[platform] ?? asyncRoutes.default
AsyncRoutesSetting(exp, platform) ==
  LET ar == exp.asyncRoutes
  IN IF ~AsyncRoutesTruthy(ar) THEN UNDEF
     ELSE IF ar.kind = "string" THEN ar.val
     ELSE IF ar.kind = "object"
          THEN (IF ar.map[platform] # UNDEF THEN ar.map[platform] ELSE ar.map["default"])
     ELSE UNDEF

\* [env, true].includes(asyncRoutesSetting) ? 'lazy' : 'sync'
CandidateMode(env, setting) ==
  IF setting = env \/ setting = JTRUE THEN "lazy" ELSE "sync"

\* if (env === 'production' && mode === 'lazy') throw
ProductionLazy(env, mode) == env = "production" /\ mode = "lazy"

\* if (platform === 'web' && (exp.web || {}).output === 'static') mode = 'sync'
StaticWebOverride(platform, exp, mode) ==
  IF platform = "web" /\ exp.webOutput = "static" THEN "sync" ELSE mode

\* ComputeImportMode with the production check made on the mode left by the
\* static-web override instead of on the candidate mode.
ComputeImportModeCheckLast(p, amb, platform) ==
  LET c == getConfigMemo(p, amb)
      env == ActiveEnv(amb)
      mode == CandidateMode(env, AsyncRoutesSetting(c.value, platform))
      final == StaticWebOverride(platform, c.value, mode)
      envVar == ImportModeEnvVar(platform)
  IN IF ProductionLazy(env, final)
     THEN [proc |-> c.proc, threw |-> TRUE, value |-> UNDEF]
     ELSE [proc |-> [c.proc EXCEPT !.env[envVar] = final,
                                   !.writes = Bump(c.proc.writes, envVar)],
           threw |-> FALSE, value |-> final]

\* The part of getExpoRouterImportMode after the cached override was found unset.
ComputeImportMode(p, amb, platform) ==
  LET c == getConfigMemo(p, amb)
      env == ActiveEnv(amb)
      mode == CandidateMode(env, AsyncRoutesSetting(c.value, platform))
      final == StaticWebOverride(platform, c.value, mode)
      envVar == ImportModeEnvVar(platform)
  IN IF ProductionLazy(env, mode)
     THEN [proc |-> c.proc, threw |-> TRUE, value |-> UNDEF]
     ELSE [proc |-> [c.proc EXCEPT !.env[envVar] = final,
                                   !.writes = Bump(c.proc.writes, envVar)],
           threw |-> FALSE, value |-> final]

\* function getExpoRouterImportMode(projectRoot, platform)
getExpoRouterImportMode(p, amb, platform) ==
  IF Truthy(p.env[ImportModeEnvVar(platform)])
  THEN [proc |-> p, threw |-> FALSE, value |-> p.env[ImportModeEnvVar(platform)]]
  ELSE ComputeImportMode(p, amb, platform)

\* function getRouterDirectory(projectRoot)
getRouterDirectory(srcAppExists) ==
  IF srcAppExists THEN <<".", "src", "app">> ELSE <<".", "app">>

\* function getExpoRouterAbsoluteAppRoot(projectRoot)
getExpoRouterAbsoluteAppRoot(p, amb, projectRoot) ==
  IF TruthyPath(p.absAppRoot)
  THEN [proc |-> p, value |-> p.absAppRoot]
  ELSE LET c == getConfigMemo(p, amb)
           customSrc == IF TruthyPath(c.value.unstable_src)
                        THEN c.value.unstable_src
                        ELSE getRouterDirectory(amb.srcApp)
           isAbsolute == Head(customSrc) = "/"
           appFolder == IF isAbsolute THEN customSrc ELSE Join(projectRoot, customSrc)
       IN [proc |-> [c.proc EXCEPT !.absAppRoot = appFolder,
                       !.writes = Bump(c.proc.writes, "EXPO_ROUTER_ABS_APP_ROOT")],
           value |-> appFolder]

\* function getExpoRouterAppRoot(projectRoot)
getExpoRouterAppRoot(p, amb, projectRoot) ==
  IF TruthyPath(p.appRoot2)
  THEN [proc |-> p, value |-> p.appRoot2]
  ELSE LET routerEntry == RouterEntry(projectRoot)
           a == getExpoRouterAbsoluteAppRoot(p, amb, projectRoot)
           appRoot == Relative(Dirname(routerEntry), a.value)
       IN [proc |-> [a.proc EXCEPT !.appRoot2 = appRoot,
                       !.writes = Bump(a.proc.writes, "EXPO_ROUTER_APP_ROOT_2")],
           value |-> appRoot]

----------------------------------------------------------------------------
(* Specification of the resolvers: any sequence of resolver calls in one   *)
(* process.  NODE_ENV and BABEL_ENV are read from process.env at each call *)
(* and are inputs of the call.  The project's configuration is fixed for   *)
(* the process, except under _EXPO_INTERNAL_TESTING, where each test may   *)
(* install its own.                                                        *)

NoCall ==
  [op |-> "none", platform |-> UNDEF, nodeEnv |-> UNDEF, babelEnv |-> UNDEF,
   cached |-> UNDEF, threw |-> FALSE, value |-> UNDEF, path |-> NoPath]

NoTarget ==
  [platform |-> UNDEF, possibleProjectRoot |-> NoPath, fileRoot |-> NoPath,
   nodeEnv |-> UNDEF, babelEnv |-> UNDEF, useStatic |-> UNDEF]
NoFile == [directives |-> <<>>, body |-> <<>>, filename |-> <<>>]
NoOutcome ==
  [done |-> FALSE, threw |-> FALSE, directives |-> <<>>, body |-> <<>>,
   hasMetadata |-> FALSE, entryPoint |-> <<>>, exports |-> <<>>]

InlineIdle ==
  /\ target = NoTarget /\ tree = <<>> /\ pos = 0 /\ pass = "idle" /\ firstOut = <<>>
ClientIdle == file = NoFile /\ srv = NoOutcome /\ cli = NoOutcome
ResolverIdle == last = NoCall

InitResolvers ==
  /\ testing \in BOOLEAN
  /\ disk \in Configs
  /\ srcApp \in BOOLEAN
  /\ proc = InitProc
  /\ last = NoCall
  /\ InlineIdle
  /\ ClientIdle

inlineVars == <<target, tree, pos, pass, firstOut>>
clientVars == <<file, srv, cli>>

ConfigResolverCall ==
  LET r == getConfigMemo(proc, Ambient(testing, disk, srcApp, UNDEF, UNDEF))
  IN /\ proc' = r.proc
     /\ last' = [NoCall EXCEPT !.op = "config"]
     /\ UNCHANGED <<testing, disk, srcApp, inlineVars, clientVars>>

ImportModeCall ==
  \E platform \in Platforms, e \in EnvPairs :
    LET nodeEnv == e[1]
        babelEnv == e[2]
        r == getExpoRouterImportMode(
               proc, Ambient(testing, disk, srcApp, nodeEnv, babelEnv), platform)
    IN /\ proc' = r.proc
       /\ last' = [NoCall EXCEPT !.op = "importMode", !.platform = platform,
                     !.nodeEnv = nodeEnv, !.babelEnv = babelEnv,
                     !.cached = proc.env[ImportModeEnvVar(platform)],
                     !.threw = r.threw, !.value = r.value]
       /\ UNCHANGED <<testing, disk, srcApp, inlineVars, clientVars>>

AbsoluteAppRootCall ==
  LET r == getExpoRouterAbsoluteAppRoot(
             proc, Ambient(testing, disk, srcApp, UNDEF, UNDEF), ProjectRoot)
  IN /\ proc' = r.proc
     /\ last' = [NoCall EXCEPT !.op = "absAppRoot", !.path = r.value]
     /\ UNCHANGED <<testing, disk, srcApp, inlineVars, clientVars>>

AppRootCall ==
  LET r == getExpoRouterAppRoot(
             proc, Ambient(testing, disk, srcApp, UNDEF, UNDEF), ProjectRoot)
  IN /\ proc' = r.proc
     /\ last' = [NoCall EXCEPT !.op = "appRoot", !.path = r.value]
     /\ UNCHANGED <<testing, disk, srcApp, inlineVars, clientVars>>

\* Under _EXPO_INTERNAL_TESTING a test installs another project configuration.
SetProjectConfig ==
  /\ testing
  /\ \E d \in Configs : d # disk /\ disk' = d
  /\ last' = NoCall
  /\ UNCHANGED <<testing, srcApp, proc, inlineVars, clientVars>>

NextResolvers ==
  \/ ConfigResolverCall
  \/ ImportModeCall
  \/ AbsoluteAppRootCall
  \/ AppRootCall
  \/ SetProjectConfig

SpecResolvers == InitResolvers /\ [][NextResolvers]_vars

----------------------------------------------------------------------------
(* Claims about the resolvers (checked under SpecResolvers).  `last` is    *)
(* the last call made under the present project configuration `disk`.      *)

\* The async-routes setting of the project resolves, for the platform, to a
\* value that selects "lazy" under environment env.
SelectsLazy(exp, platform, env) ==
  AsyncRoutesSetting(exp, platform) \in {env, JTRUE}

ImportModeCalled == last.op = "importMode"

\* C1: a call for a platform with no cached override, made in production with
\* a setting that resolves to the environment name or to true, throws and
\* leaves the platform's cache entry unset.
C1_ProductionLazyThrows ==
  ( /\ ImportModeCalled
    /\ ~Truthy(last.cached)
    /\ ActiveEnv(last) = "production"
    /\ SelectsLazy(disk, last.platform, "production") )
  => ( /\ last.threw
       /\ ~Truthy(proc.env[ImportModeEnvVar(last.platform)]) )

\* C1 witness: the failing call happened, for the web platform of a project
\* whose web output is static (the case the static-web override could mask).
C1_Witness ==
  /\ ImportModeCalled
  /\ last.cached = UNDEF
  /\ last.platform = "web"
  /\ disk.webOutput = "static"
  /\ ActiveEnv(last) = "production"
  /\ SelectsLazy(disk, "web", "production")
  /\ last.threw
  /\ proc.env[ImportModeEnvVar("web")] = UNDEF

\* C2 (as claimed): every call for the web platform of a project whose web
\* output is static returns "sync", whatever the setting and the environment.
C2_WebStaticAlwaysSync ==
  (ImportModeCalled /\ last.platform = "web" /\ disk.webOutput = "static")
  => (~last.threw /\ last.value = "sync")

\* C3 (as claimed): a call made in production with a setting that would select
\* lazy never returns "lazy", whatever earlier calls left in the cache.
C3_NeverLazyInProduction ==
  ( /\ ImportModeCalled
    /\ ActiveEnv(last) = "production"
    /\ SelectsLazy(disk, last.platform, "production") )
  => ~(~last.threw /\ last.value = "lazy")

\* C10 (as claimed): without _EXPO_INTERNAL_TESTING every cache key is assigned
\* at most once in the life of the process.
C10_WrittenAtMostOnce ==
  ~testing => \A k \in CacheKeys : proc.writes[k] <= 1

----------------------------------------------------------------------------
(* expoRouterBabelPlugin: the MemberExpression visitor.                    *)
(*                                                                         *)
(* A node of `tree` is an outer member expression `process.env.<name>`     *)
(* (the visitor is handed its object `process.env`, lines 134-144 hold)    *)
(* together with its place in its parent: parentType is the type of        *)
(* parent.parentPath and key the field of that parent holding the node.    *)
(* A replaced node is a StringLiteral or BooleanLiteral at the same place. *)

MaxNodes == 2

EnvNames ==
  { "EXPO_PROJECT_ROOT", "EXPO_PUBLIC_USE_STATIC", "EXPO_ROUTER_ABS_APP_ROOT",
    "EXPO_ROUTER_APP_ROOT", "EXPO_ROUTER_IMPORT_MODE_WEB", "EXPO_OS" }

Places ==
  { [parentType |-> "AssignmentExpression", key |-> "left"],
    [parentType |-> "AssignmentExpression", key |-> "right"],
    [parentType |-> "CallExpression", key |-> "arguments"] }

MemberExpression(name, place) ==
  [type |-> "MemberExpression", name |-> name, parentType |-> place.parentType,
   key |-> place.key, str |-> UNDEF, path |-> NoPath]

\* parent.replaceWith(t.stringLiteral(value)) for a string value
StringLiteral(node, value) ==
  [node EXCEPT !.type = "StringLiteral", !.name = UNDEF, !.str = value]

\* parent.replaceWith(t.stringLiteral(value)) for a path value
PathLiteral(node, value) ==
  [node EXCEPT !.type = "StringLiteral", !.name = UNDEF, !.path = value]

\* parent.replaceWith(t.booleanLiteral(value))
BooleanLiteral(node, value) ==
  [node EXCEPT !.type = "BooleanLiteral", !.name = UNDEF,
               !.str = IF value THEN JTRUE ELSE JFALSE]

\* const projectRoot = possibleProjectRoot || state.file.opts.root || ''
InlineProjectRoot(tgt) ==
  IF TruthyPath(tgt.possibleProjectRoot) THEN tgt.possibleProjectRoot
  ELSE IF TruthyPath(tgt.fileRoot) THEN tgt.fileRoot
  ELSE <<>>

\* !parent.parentPath.isAssignmentExpression()
NotInAssignment(node) == node.parentType # "AssignmentExpression"

Kept(node, p) == [proc |-> p, threw |-> FALSE, node |-> node]

\* lines 149-155: EXPO_PROJECT_ROOT
InlineProjectRootVar(node, p, tgt) ==
  [proc |-> p, threw |-> FALSE, node |-> PathLiteral(node, InlineProjectRoot(tgt))]

\* lines 156-172: EXPO_PUBLIC_USE_STATIC
InlineUseStatic(node, p, tgt) ==
  IF tgt.platform = "web"
  THEN Kept(BooleanLiteral(node, tgt.useStatic = "true" \/ tgt.useStatic = "1"), p)
  ELSE Kept(BooleanLiteral(node, FALSE), p)

\* The absolute app root is inlined only once process.env already holds it;
\* the first occurrence only fills the cache.
InlineAbsAppRootWhenCached(node, p, amb, tgt) ==
  LET r == getExpoRouterAbsoluteAppRoot(p, amb, InlineProjectRoot(tgt))
  IN [proc |-> r.proc, threw |-> FALSE,
      node |-> IF TruthyPath(p.absAppRoot) THEN PathLiteral(node, r.value) ELSE node]

\* lines 173-180: EXPO_ROUTER_ABS_APP_ROOT
InlineAbsAppRoot(node, p, amb, tgt) ==
  LET r == getExpoRouterAbsoluteAppRoot(p, amb, InlineProjectRoot(tgt))
  IN [proc |-> r.proc, threw |-> FALSE, node |-> PathLiteral(node, r.value)]

\* lines 181-193: EXPO_ROUTER_APP_ROOT
InlineAppRoot(node, p, amb, tgt) ==
  LET r == getExpoRouterAppRoot(p, amb, InlineProjectRoot(tgt))
  IN [proc |-> r.proc, threw |-> FALSE, node |-> PathLiteral(node, r.value)]

\* lines 194-203: EXPO_ROUTER_IMPORT_MODE_<PLATFORM>
InlineImportMode(node, p, amb, tgt) ==
  LET r == getExpoRouterImportMode(p, amb, tgt.platform)
  IN [proc |-> r.proc, threw |-> r.threw,
      node |-> IF r.threw THEN node ELSE StringLiteral(node, r.value)]

\* MemberExpression(path, state), lines 133-204
VisitMemberExpression(node, p, amb, tgt) ==
  IF node.type # "MemberExpression" THEN Kept(node, p)
  ELSE IF node.name = "EXPO_PROJECT_ROOT" /\ NotInAssignment(node)
       THEN InlineProjectRootVar(node, p, tgt)
  ELSE IF node.name = "EXPO_PUBLIC_USE_STATIC" /\ NotInAssignment(node)
       THEN InlineUseStatic(node, p, tgt)
  ELSE IF /\ tgt.nodeEnv # "test"
          /\ node.name = "EXPO_ROUTER_ABS_APP_ROOT"
          /\ NotInAssignment(node)
       THEN InlineAbsAppRoot(node, p, amb, tgt)
  ELSE IF /\ tgt.nodeEnv # "test"
          /\ node.name = "EXPO_ROUTER_APP_ROOT"
          /\ NotInAssignment(node)
       THEN InlineAppRoot(node, p, amb, tgt)
  ELSE IF /\ Truthy(tgt.platform)
          /\ node.name = ImportModeEnvVar(tgt.platform)
          /\ NotInAssignment(node)
       THEN InlineImportMode(node, p, amb, tgt)
  ELSE Kept(node, p)

----------------------------------------------------------------------------
(* Specification of the inlining pass: one file is transformed, node by    *)
(* node in source order, and the tree it produced is transformed again     *)
(* under the same build target and environment.                            *)

Nodes == { MemberExpression(n, pl) : n \in EnvNames, pl \in Places }

RECURSIVE SeqsUpTo(_, _)
SeqsUpTo(S, n) ==
  IF n = 0 THEN {<<>>}
  ELSE LET shorter == SeqsUpTo(S, n - 1)
       IN shorter \cup { Append(q, x) : q \in shorter, x \in S }

Trees == SeqsUpTo(Nodes, MaxNodes) \ {<<>>}

Targets ==
  { [platform |-> pf, possibleProjectRoot |-> ProjectRoot, fileRoot |-> NoPath,
     nodeEnv |-> ne, babelEnv |-> UNDEF, useStatic |-> us] :
      pf \in {UNDEF, "ios", "web"},
      ne \in {"development", "production", "test"},
      us \in {UNDEF, "1"} }

InlineConfigs ==
  { MkConfig(ARString("development"), "single", NoPath),
    MkConfig(ARObject(PerPlatform), "single", <<"/", "abs", "routes">>) }

InitInline ==
  /\ testing = FALSE
  /\ disk \in InlineConfigs
  /\ srcApp = FALSE
  /\ proc = InitProc
  /\ last = NoCall
  /\ target \in Targets
  /\ tree \in Trees
  /\ pos = 1
  /\ pass = "first"
  /\ firstOut = <<>>
  /\ ClientIdle

\* The traversal hands the next node to the visitor.
Visit ==
  /\ pass \in {"first", "second"}
  /\ pos <= Len(tree)
  /\ LET amb == Ambient(testing, disk, srcApp, target.nodeEnv, target.babelEnv)
         r == VisitMemberExpression(tree[pos], proc, amb, target)
     IN /\ proc' = r.proc
        /\ tree' = [tree EXCEPT ![pos] = r.node]
        /\ IF r.threw
           THEN pass' = "failed" /\ pos' = pos
           ELSE pass' = pass /\ pos' = pos + 1
  /\ UNCHANGED <<testing, disk, srcApp, last, target, firstOut, clientVars>>

\* The first run is over: the host runs the pass again on the tree it produced.
RunAgain ==
  /\ pass = "first"
  /\ pos > Len(tree)
  /\ firstOut' = tree
  /\ pass' = "second"
  /\ pos' = 1
  /\ UNCHANGED <<testing, disk, srcApp, proc, last, target, tree, clientVars>>

\* The second run is over.
Finish ==
  /\ pass = "second"
  /\ pos > Len(tree)
  /\ pass' = "done"
  /\ UNCHANGED <<testing, disk, srcApp, proc, last, target, tree, pos, firstOut,
                 clientVars>>

NextInline == Visit \/ RunAgain \/ Finish

SpecInline == InitInline /\ [][NextInline]_vars

----------------------------------------------------------------------------
(* Claims about the inlining pass (checked under SpecInline). *)

\* The names the pass recognizes for the active build target.
Recognized(name, tgt) ==
  \/ name \in { "EXPO_PROJECT_ROOT", "EXPO_PUBLIC_USE_STATIC",
                "EXPO_ROUTER_ABS_APP_ROOT", "EXPO_ROUTER_APP_ROOT" }
  \/ (tgt.platform \in Platforms /\ name = ImportModeEnvVar(tgt.platform))

TestExempt(name, tgt) ==
  /\ tgt.nodeEnv = "test"
  /\ name \in {"EXPO_ROUTER_ABS_APP_ROOT", "EXPO_ROUTER_APP_ROOT"}

IsAssignmentTarget(node) ==
  node.parentType = "AssignmentExpression" /\ node.key = "left"

\* The visitor returned normally from the node at pos.
Visited == pass = "first" /\ pos <= Len(tree) /\ pos' = pos + 1

\* C4 (as claimed): a recognized process.env.<NAME> is replaced by a literal
\* exactly when it is not the left-hand side of an assignment (reads on the
\* right-hand side included), the app-root names being exempt only in test.
C4_RewrittenIffNotAssignmentTarget ==
  [][ Visited =>
        ( (tree'[pos].type # "MemberExpression")
          <=> ( /\ Recognized(tree[pos].name, target)
                /\ ~TestExempt(tree[pos].name, target)
                /\ ~IsAssignmentTarget(tree[pos]) ) ) ]_vars

\* A member expression the pass would still replace.
Rewritable(node) ==
  /\ node.type = "MemberExpression"
  /\ Recognized(node.name, target)
  /\ ~TestExempt(node.name, target)
  /\ node.parentType # "AssignmentExpression"

\* C9: a second run on the tree a first run produced changes nothing, does
\* not fail, and the produced tree holds no member expression the pass would
\* still replace.
C9_SecondRunIsNoOp ==
  /\ (pass \in {"second", "done"} =>
        /\ \A i \in 1..Len(firstOut) : ~Rewritable(firstOut[i])
        /\ tree = firstOut)
  /\ (pass = "failed" => firstOut = <<>>)

\* C9 witness: both runs are over and the first one replaced a node.
C9_Witness ==
  /\ pass = "done"
  /\ \E i \in 1..Len(firstOut) : firstOut[i].type = "StringLiteral"
  /\ \E i \in 1..Len(firstOut) : firstOut[i].type = "MemberExpression"

----------------------------------------------------------------------------
(* expoRouterServerComponentClientReferencesPlugin: the Program visitor.   *)
(*                                                                         *)
(* A statement of a module body records what the visitor reads of it: its  *)
(* type, the type of node.declaration (UNDEF when there is none), the      *)
(* `.id.name` of each declarator or of the declared function (UNDEF for a  *)
(* destructuring pattern, which has no name), and its specifiers.          *)

MaxBody == 2

NoDescriptor == [typeof |-> UNDEF, async |-> UNDEF, entryPoint |-> <<>>, exportName |-> UNDEF, name |-> UNDEF]

Statement(type, declType, ids, specifiers) ==
  [type |-> type, declType |-> declType, ids |-> ids, specifiers |-> specifiers,
   descriptor |-> NoDescriptor]

Statements ==
  { \* export const a = 1;   export const a = 1, b = 2;
    Statement("ExportNamedDeclaration", "VariableDeclaration", <<"a">>, <<>>),
    Statement("ExportNamedDeclaration", "VariableDeclaration", <<"a", "b">>, <<>>),
    \* export const { x } = obj;   export const a = 1, { x } = obj;
    Statement("ExportNamedDeclaration", "VariableDeclaration", <<UNDEF>>, <<>>),
    Statement("ExportNamedDeclaration", "VariableDeclaration", <<"a", UNDEF>>, <<>>),
    \* export function c() {}
    Statement("ExportNamedDeclaration", "FunctionDeclaration", <<"c">>, <<>>),
    \* export { x as d, y as e };   export {};
    Statement("ExportNamedDeclaration", UNDEF, <<>>,
              << [local |-> "x", exported |-> "d"], [local |-> "y", exported |-> "e"] >>),
    Statement("ExportNamedDeclaration", UNDEF, <<>>, <<>>),
    \* export default function Foo() {}   export default foo;
    Statement("ExportDefaultDeclaration", "FunctionDeclaration", <<"Foo">>, <<>>),
    Statement("ExportDefaultDeclaration", "Identifier", <<>>, <<>>),
    \* export * from './x';   console.log(1);
    Statement("ExportAllDeclaration", UNDEF, <<>>, <<>>),
    Statement("ExpressionStatement", UNDEF, <<>>, <<>>) }

ServerRoot == ProjectRoot

\* The directive check taken as "the file has a directive".
HasAnyDirective(f) == f.directives # <<>>

\* path.node.directives.some((directive) => directive.value.value === 'use client')
HasUseClient(f) == \E i \in 1..Len(f.directives) : f.directives[i] = "use client"

\* const outputKey = '/' + nodePath.relative(serverRoot, state.file.opts.filename)
OutputKey(serverRoot, filename) == <<"/">> \o Relative(serverRoot, filename)

\* node.specifiers.map((spec) => spec.exported.name)
ExportedNames(specifiers) ==
  [i \in 1..Len(specifiers) |-> specifiers[i].exported]

\* The names one statement pushes onto `exports`, lines 233-250.
ExportsOfStatement(st) ==
  IF st.type = "ExportNamedDeclaration"
  THEN IF st.declType # UNDEF
       THEN (IF st.declType = "VariableDeclaration" THEN st.ids ELSE <<st.ids[1]>>)
       ELSE ExportedNames(st.specifiers)
  ELSE IF st.type = "ExportDefaultDeclaration"
       THEN (IF st.declType # UNDEF THEN <<"default">> ELSE <<>>)
  ELSE <<>>

\* path.traverse({...}): the statements are visited in source order.
RECURSIVE CollectExports(_)
CollectExports(body) ==
  IF body = <<>> THEN <<>>
  ELSE ExportsOfStatement(Head(body)) \o CollectExports(Tail(body))

\* { $$typeof: 'react.client.reference', $$async: false, $$id: `${outputKey}#${exp}`, name: exp }
Descriptor(outputKey, exp) ==
  [typeof |-> "react.client.reference", async |-> JFALSE,
   entryPoint |-> outputKey, exportName |-> exp, name |-> exp]

\* lines 263-303: the statement pushed for one export name
Stub(outputKey, exp) ==
  IF exp = "default"
  THEN [type |-> "ExportDefaultDeclaration", declType |-> "ObjectExpression",
        ids |-> <<>>, specifiers |-> <<>>, descriptor |-> Descriptor(outputKey, "default")]
  ELSE [type |-> "ExportNamedDeclaration", declType |-> "VariableDeclaration",
        ids |-> <<exp>>, specifiers |-> <<>>, descriptor |-> Descriptor(outputKey, exp)]

\* t.identifier(exp) and t.stringLiteral(exp) reject a name that is no string.
BuilderThrows(exp) == exp = UNDEF

\* for (const exp of exports) path.pushContainer('body', ...): the body built
\* until the loop ends or a builder throws.
RECURSIVE PushStubs(_, _, _)
PushStubs(outputKey, exports, body) ==
  IF exports = <<>> THEN [threw |-> FALSE, body |-> body]
  ELSE IF BuilderThrows(Head(exports)) THEN [threw |-> TRUE, body |-> body]
  ELSE PushStubs(outputKey, Tail(exports), Append(body, Stub(outputKey, Head(exports))))

\* Program(path, state), lines 219-312
Program(f, isServer, serverRoot) ==
  LET untouched == [done |-> TRUE, threw |-> FALSE, directives |-> f.directives,
                    body |-> f.body, hasMetadata |-> FALSE, entryPoint |-> <<>>,
                    exports |-> <<>>]
      outputKey == OutputKey(serverRoot, f.filename)
      exports == CollectExports(f.body)
      pushed == PushStubs(outputKey, exports, <<>>)
  IN IF ~HasUseClient(f) THEN untouched
     ELSE IF isServer
          THEN [untouched EXCEPT !.threw = pushed.threw, !.directives = <<>>,
                                 !.body = pushed.body]
          ELSE [untouched EXCEPT !.hasMetadata = TRUE, !.entryPoint = outputKey,
                                 !.exports = exports]

----------------------------------------------------------------------------
(* Specification of the client-references pass: one file is handed once to *)
(* the plugin instance of the server (RSC) bundle and once to the instance *)
(* of the client bundle.                                                   *)

DirectiveLists ==
  { <<>>, <<"use strict">>, <<"use client">>, <<"use strict", "use client">> }

Files ==
  { [directives |-> d, body |-> b, filename |-> ServerRoot \o <<"components", "Foo.js">>] :
      d \in DirectiveLists, b \in SeqsUpTo(Statements, MaxBody) }

InitClient ==
  /\ testing = FALSE
  /\ disk \in {MkConfig(ARUndefined, "single", NoPath)}
  /\ srcApp = FALSE
  /\ proc = InitProc
  /\ ResolverIdle
  /\ InlineIdle
  /\ file \in Files
  /\ srv = NoOutcome
  /\ cli = NoOutcome

ProgramServer ==
  /\ ~srv.done
  /\ srv' = Program(file, TRUE, ServerRoot)
  /\ UNCHANGED <<testing, disk, srcApp, proc, last, inlineVars, file, cli>>

ProgramClient ==
  /\ ~cli.done
  /\ cli' = Program(file, FALSE, ServerRoot)
  /\ UNCHANGED <<testing, disk, srcApp, proc, last, inlineVars, file, srv>>

NextClient == ProgramServer \/ ProgramClient

SpecClient == InitClient /\ [][NextClient]_vars

----------------------------------------------------------------------------
(* Claims about the client-references pass (checked under SpecClient). *)

\* The export names the stubs of a body carry: for each statement the suffix
\* of its descriptor id, required to be its display name.
StubNames(body) == [i \in 1..Len(body) |-> body[i].descriptor.exportName]

BothDone == srv.done /\ cli.done

\* The file bears the client-only directive.
BearsClientDirective(f) == "use client" \in {f.directives[i] : i \in 1..Len(f.directives)}

\* C5 (as claimed): for every file bearing the directive, the server run and
\* the client run give the same export surface: the stubs' id suffixes (equal
\* to their names) are the manifest's exports, in order, with one entryPoint.
C5_SameExportSurface ==
  (BothDone /\ BearsClientDirective(file)) =>
    /\ ~srv.threw
    /\ StubNames(srv.body) = cli.exports
    /\ \A i \in 1..Len(srv.body) :
         /\ srv.body[i].descriptor.name = srv.body[i].descriptor.exportName
         /\ srv.body[i].descriptor.entryPoint = cli.entryPoint

\* The exported symbols of a statement as the claims enumerate them: every
\* binding of a declaration, each specifier's public name, "default".
SymbolsOfStatement(st) ==
  CASE st.type = "ExportNamedDeclaration" /\ st.declType # UNDEF -> st.ids
    [] st.type = "ExportNamedDeclaration" /\ st.declType = UNDEF ->
         [i \in 1..Len(st.specifiers) |-> st.specifiers[i].exported]
    [] st.type = "ExportDefaultDeclaration" -> <<"default">>
    [] OTHER -> <<>>

RECURSIVE SymbolsOf(_)
SymbolsOf(body) ==
  IF body = <<>> THEN <<>> ELSE SymbolsOfStatement(Head(body)) \o SymbolsOf(Tail(body))

ExpectedStub(entryPoint, name) ==
  [type |-> IF name = "default" THEN "ExportDefaultDeclaration"
            ELSE "ExportNamedDeclaration",
   descriptor |-> [id |-> <<entryPoint, "#", name>>, name |-> name, async |-> JFALSE]]

StubView(st) ==
  [type |-> st.type,
   descriptor |-> [id |-> <<st.descriptor.entryPoint, "#", st.descriptor.exportName>>,
                   name |-> st.descriptor.name, async |-> st.descriptor.async]]

\* C6 (as claimed): the server run of a file bearing the directive leaves no
\* directive and exactly one export statement per exported symbol, in
\* declaration order, each with id entryPoint#name, name and async false.
C6_ServerBodyIsOneStubPerExport ==
  (srv.done /\ BearsClientDirective(file)) =>
    LET names == SymbolsOf(file.body)
        entryPoint == <<"/", "components", "Foo.js">>
    IN /\ ~srv.threw
       /\ srv.directives = <<>>
       /\ Len(srv.body) = Len(names)
       /\ \A i \in 1..Len(names) :
            StubView(srv.body[i]) = ExpectedStub(entryPoint, names[i])

\* C7: the tree is modified only by the server run of a file bearing the
\* directive, and the clientReferences metadata is written only by the client
\* run of such a file.
C7_FrameConditions ==
  /\ srv.done =>
       /\ ~srv.hasMetadata
       /\ (~BearsClientDirective(file) =>
             srv.body = file.body /\ srv.directives = file.directives /\ ~srv.threw)
  /\ cli.done =>
       /\ cli.body = file.body /\ cli.directives = file.directives /\ ~cli.threw
       /\ (cli.hasMetadata => BearsClientDirective(file))

\* C7 witness: a file with another directive and with exports, but without
\* "use client", went through both runs.
C7_Witness ==
  /\ BothDone
  /\ file.directives = <<"use strict">>
  /\ SymbolsOf(file.body) # <<>>
  /\ ~cli.hasMetadata
  /\ srv.body = file.body

\* An export declaration of a shape the enumerator does not recognize.
Unrecognized(st) ==
  \/ st.type = "ExportDefaultDeclaration" /\ st.declType = "Identifier"
  \/ st.type = "ExportAllDeclaration"

\* The names of the recognized exports: plain-identifier bindings, specifiers'
\* public names, and "default" for a default export of a declaration.
RecognizedOfStatement(st) ==
  IF Unrecognized(st) THEN <<>>
  ELSE SelectSeq(SymbolsOfStatement(st), LAMBDA n : n # UNDEF)

RECURSIVE RecognizedOf(_)
RecognizedOf(body) ==
  IF body = <<>> THEN <<>>
  ELSE RecognizedOfStatement(Head(body)) \o RecognizedOf(Tail(body))

\* C8 (as claimed): unrecognized export shapes are silently skipped: neither
\* run fails, and the export list is exactly the recognized exports.
C8_UnrecognizedShapesSkipped ==
  (BothDone /\ BearsClientDirective(file)) =>
    /\ ~srv.threw /\ ~cli.threw
    /\ cli.exports = RecognizedOf(file.body)
    /\ StubNames(srv.body) = RecognizedOf(file.body)

====
